---------------------------- MODULE Spec2Model ----------------------------
(***************************************************************************)
(* A model of src/src/Depfile.cpp (ccache): the dependency-file tokenizer  *)
(* Depfile::tokenize, the escaper Depfile::escape_filename and the path    *)
(* rewriting pass Depfile::rewrite_source_paths with its caller            *)
(* Depfile::make_paths_relative_in_output_dep.                             *)
(*                                                                         *)
(* A text is a sequence of characters; a character is a one-character      *)
(* string.  Positions are 0-based as in the C++ code (At(s, p) is s[p]).   *)
(***************************************************************************)
EXTENDS Integers, Sequences, FiniteSets, TLC

VARIABLES
  pc,            \* which function is running and where it is
  file_content,  \* the text handed to tokenize / rewrite_source_paths
  filename,      \* escape_filename's argument (round-trip runs)
  p,             \* tokenize: the read position
  token,         \* tokenize: the token being accumulated
  result,        \* tokenize: the tokens emitted so far
  base_dir,      \* ctx.config.base_dir()
  line_no,       \* rewrite: the line the outer loop is at (1-based)
  i,             \* rewrite: the index of the next token of that line
  adjusted_file_content,
  content_rewritten,
  seen_target_token,
  offered,       \* the calls of Util::make_relative_path so far: which
                 \* token (line, index in the line) and its text (path)
  out,           \* rewrite's return value, an optional text
  pass,          \* 1 in the first application of rewrite, 2 in the second
  first_input,   \* the text the first application was given
  dep_pc,        \* make_paths_relative_in_output_dep: where it is, "none"
                 \* when rewrite_source_paths was called by someone else
  output_dep,    \* the dependency file: readable or not, and its content
  dep_before,    \* the dependency file as it was when the call began
  reads,         \* the number of util::read_file calls so far
  writes         \* the contents util::write_file was called with, in order

tokVars == <<p, token, result>>
rewriteLocals == <<line_no, i, adjusted_file_content, content_rewritten,
                   seen_target_token>>
depVars == <<dep_pc, output_dep, dep_before, reads, writes>>
rewriteVars == <<base_dir, line_no, i, adjusted_file_content, content_rewritten,
                 seen_target_token, offered, out, pass, first_input, depVars>>
vars == <<pc, file_content, filename, p, token, result, base_dir, line_no, i,
          adjusted_file_content, content_rewritten, seen_target_token, offered,
          out, pass, first_input, dep_pc, output_dep, dep_before, reads, writes>>

---------------------------------------------------------------------------
(* Bounds of the model.                                                    *)

\* the longest enumerated tokenizer input
MaxLen == 4
\* the longest enumerated filename
MaxNameLen == 3

---------------------------------------------------------------------------
(* Characters and texts.                                                   *)

\* the characters tokenizer inputs are enumerated over
TokAlphabet == {"a", ":", " ", "\n", "\\", "$", "\"", "/"}

\* the characters filenames are enumerated over
NameAlphabet == {"a", ":", " ", "\t", "\n", "\\", "$", "\"", "#", "/"}

RECURSIVE TextsUpTo(_, _)
TextsUpTo(alphabet, n) ==
  IF n = 0 THEN {<<>>}
  ELSE LET shorter == TextsUpTo(alphabet, n - 1)
       IN  shorter \cup {Append(s, c) : s \in {t \in shorter : Len(t) = n - 1},
                                        c \in alphabet}

At(s, pos) == s[pos + 1]

\* the elements of a sequence
Range(seq) == {seq[k] : k \in 1..Len(seq)}

\* isspace(c) in the C locale (the vertical tab has no TLA+ escape and is
\* left out)
isspace(c) == c \in {" ", "\t", "\n", "\r", "\f"}

\* is_blank: std::all_of over the string, true of the empty string
is_blank(s) == \A k \in 1..Len(s) : isspace(s[k])

---------------------------------------------------------------------------
(* Depfile::escape_filename                                                *)

\* escape_filename without its case ':'
RECURSIVE escape_filename_colon_unescaped(_)
escape_filename_colon_unescaped(name) ==
  IF name = <<>> THEN <<>>
  ELSE LET c == Head(name)
           prefix == IF c \in {"\\", "#", " ", "\t"} THEN <<"\\">>
                     ELSE IF c = "$" THEN <<"$">>
                     ELSE <<>>
       IN  prefix \o <<c>> \o escape_filename_colon_unescaped(Tail(name))

\* escape_filename with '$' escaped by a backslash instead of doubled
RECURSIVE escape_filename_dollar_backslashed(_)
escape_filename_dollar_backslashed(name) ==
  IF name = <<>> THEN <<>>
  ELSE LET c == Head(name)
           prefix == IF c \in {"\\", "#", ":", " ", "\t", "$"} THEN <<"\\">>
                     ELSE <<>>
       IN  prefix \o <<c>> \o escape_filename_dollar_backslashed(Tail(name))

RECURSIVE escape_filename(_)
escape_filename(name) ==
  IF name = <<>> THEN <<>>
  ELSE LET c == Head(name)
           prefix == IF c \in {"\\", "#", ":", " ", "\t"} THEN <<"\\">>
                     ELSE IF c = "$" THEN <<"$">>
                     ELSE <<>>
       IN  prefix \o <<c>> \o escape_filename(Tail(name))

---------------------------------------------------------------------------
(* Depfile::tokenize, one iteration of its main loop at a time.            *)

\* "chomp all spaces before next char"
RECURSIVE SkipSpaces(_, _)
SkipSpaces(s, pos) ==
  IF pos < Len(s) /\ isspace(At(s, pos)) THEN SkipSpaces(s, pos + 1) ELSE pos

\* the first position at or after pos that holds a '"', or the length
RECURSIVE QuoteEnd(_, _)
QuoteEnd(s, pos) ==
  IF pos < Len(s) /\ At(s, pos) # "\"" THEN QuoteEnd(s, pos + 1) ELSE pos

\* s[from .. to-1], 0-based
Slice(s, from, to) == SubSeq(s, from + 1, to)

\* the Windows-path test without the condition on the token's length
IsDriveColonAnyLength(s, pos, tok) ==
  /\ At(s, pos) = ":"
  /\ pos + 1 < Len(s)
  /\ ~is_blank(tok)
  /\ At(s, pos + 1) \in {"/", "\\"}

\* the Windows-path test at the head of the loop body
IsDriveColon(s, pos, tok) ==
  /\ At(s, pos) = ":"
  /\ pos + 1 < Len(s)
  /\ ~is_blank(tok)
  /\ Len(tok) = 1
  /\ At(s, pos + 1) \in {"/", "\\"}

IsSeparator(c) == isspace(c) \/ c = ":"

\* colon kept in the token, the loop continues behind it
DriveColonIter(s, st) ==
  [p |-> st.p + 1, token |-> Append(st.token, ":"), result |-> st.result]

\* the colon is consumed but not added to the token
GluedTokenColonDropped(s, pos, tok) == tok

\* the token modified by the "spaces between a token and the : sign" rule
GluedToken(s, pos, tok) ==
  IF pos < Len(s) /\ At(s, pos) = ":" THEN Append(tok, ":") ELSE tok

\* whitespace or colon: chomp the spaces, emit the token unless it is blank
SeparatorIter(s, st) ==
  LET p1 == SkipSpaces(s, st.p)
      glue == p1 < Len(s) /\ At(s, p1) = ":"
  IN  IF ~is_blank(st.token)
      THEN [p |-> IF glue THEN SkipSpaces(s, p1 + 1) ELSE p1,
            token |-> <<>>,
            result |-> Append(st.result, GluedToken(s, p1, st.token))]
      ELSE [p |-> p1, token |-> <<>>, result |-> st.result]

\* a backslash before a newline is kept in the token
BackslashIterKeepsContinuation(s, st) ==
  IF st.p + 1 < Len(s) /\ At(s, st.p + 1) \in {"\\", "#", ":", " ", "\t"}
  THEN [p |-> st.p + 2, token |-> Append(st.token, At(s, st.p + 1)),
        result |-> st.result]
  ELSE [p |-> st.p + 1, token |-> Append(st.token, "\\"), result |-> st.result]

\* a backslash that ends the input is dropped
BackslashIterDropsLast(s, st) ==
  IF st.p + 1 < Len(s) /\ At(s, st.p + 1) \in {"\\", "#", ":", " ", "\t"}
  THEN [p |-> st.p + 2, token |-> Append(st.token, At(s, st.p + 1)),
        result |-> st.result]
  ELSE IF st.p + 1 < Len(s) /\ At(s, st.p + 1) = "\n"
  THEN [p |-> st.p + 1, token |-> st.token, result |-> st.result]
  ELSE IF st.p + 1 < Len(s)
  THEN [p |-> st.p + 1, token |-> Append(st.token, "\\"), result |-> st.result]
  ELSE [p |-> st.p + 1, token |-> st.token, result |-> st.result]

BackslashIter(s, st) ==
  IF st.p + 1 < Len(s) /\ At(s, st.p + 1) \in {"\\", "#", ":", " ", "\t"}
  THEN [p |-> st.p + 2, token |-> Append(st.token, At(s, st.p + 1)),
        result |-> st.result]
  ELSE IF st.p + 1 < Len(s) /\ At(s, st.p + 1) = "\n"
  THEN [p |-> st.p + 1, token |-> st.token, result |-> st.result]
  ELSE [p |-> st.p + 1, token |-> Append(st.token, "\\"), result |-> st.result]

\* "$$" is not collapsed
DollarIterKeepsBoth(s, st) ==
  [p |-> st.p + 1, token |-> Append(st.token, "$"), result |-> st.result]

DollarIter(s, st) ==
  IF st.p + 1 < Len(s) /\ At(s, st.p + 1) = "$"
  THEN [p |-> st.p + 2, token |-> Append(st.token, "$"), result |-> st.result]
  ELSE [p |-> st.p + 1, token |-> Append(st.token, "$"), result |-> st.result]

\* the opening quote goes to the token with the span
QuoteIterKeepsQuote(s, st) ==
  LET q == QuoteEnd(s, st.p + 1)
  IN  [p |-> IF q < Len(s) THEN q + 1 ELSE q,
       token |-> st.token \o Slice(s, st.p, q),
       result |-> st.result]

\* everything up to the next quote goes to the token, both quotes are skipped
QuoteIter(s, st) ==
  LET q == QuoteEnd(s, st.p + 1)
  IN  [p |-> IF q < Len(s) THEN q + 1 ELSE q,
       token |-> st.token \o Slice(s, st.p + 1, q),
       result |-> st.result]

PlainIter(s, st) ==
  [p |-> st.p + 1, token |-> Append(st.token, At(s, st.p)), result |-> st.result]

\* which branch of the loop body runs at st
Branch(s, st) ==
  LET c == At(s, st.p)
  IN  IF IsDriveColon(s, st.p, st.token) THEN "drive"
      ELSE IF IsSeparator(c) THEN "separator"
      ELSE IF c = "\\" THEN "backslash"
      ELSE IF c = "$" THEN "dollar"
      ELSE IF c = "\"" THEN "quote"
      ELSE "plain"

\* the loop body of tokenize: the state after one iteration from st
TokIter(s, st) ==
  LET b == Branch(s, st)
  IN  CASE b = "drive" -> DriveColonIter(s, st)
        [] b = "separator" -> SeparatorIter(s, st)
        [] b = "backslash" -> BackslashIter(s, st)
        [] b = "dollar" -> DollarIter(s, st)
        [] b = "quote" -> QuoteIter(s, st)
        [] OTHER -> PlainIter(s, st)

\* the last token is emitted whatever it holds
TokFinalAlways(st) == Append(st.result, st.token)

\* the code after the loop: the last token is emitted unless it is blank
TokFinal(st) ==
  IF ~is_blank(st.token) THEN Append(st.result, st.token) ELSE st.result

TokState == [p |-> p, token |-> token, result |-> result]

TokStart == [p |-> 0, token |-> <<>>, result |-> <<>>]

\* an iteration that leaves p, token and result as they were: the loop
\* condition stays true and every later iteration repeats it
Stuck(s, st) == st.p < Len(s) /\ TokIter(s, st) = st

\* tokenize as a function: the tokens returned, or returns = FALSE when the
\* loop reaches an iteration that repeats itself for ever
RECURSIVE TokRun(_, _)
TokRun(s, st) ==
  IF st.p >= Len(s) THEN [returns |-> TRUE, tokens |-> TokFinal(st)]
  ELSE IF Stuck(s, st) THEN [returns |-> FALSE, tokens |-> st.result]
  ELSE TokRun(s, TokIter(s, st))

tokenize(s) == TokRun(s, TokStart)

---------------------------------------------------------------------------
(* The tokenizer's actions.                                                *)

AtBranch(b) ==
  /\ pc = "tokenize"
  /\ p < Len(file_content)
  /\ Branch(file_content, TokState) = b

TokApply(n) ==
  /\ p' = n.p
  /\ token' = n.token
  /\ result' = n.result
  /\ UNCHANGED <<pc, file_content, filename, rewriteVars>>

TokDriveColon ==
  /\ AtBranch("drive")
  /\ TokApply(DriveColonIter(file_content, TokState))

TokSeparator ==
  /\ AtBranch("separator")
  /\ TokApply(SeparatorIter(file_content, TokState))

TokBackslash ==
  /\ AtBranch("backslash")
  /\ TokApply(BackslashIter(file_content, TokState))

TokDollar ==
  /\ AtBranch("dollar")
  /\ TokApply(DollarIter(file_content, TokState))

TokQuote ==
  /\ AtBranch("quote")
  /\ TokApply(QuoteIter(file_content, TokState))

TokPlain ==
  /\ AtBranch("plain")
  /\ TokApply(PlainIter(file_content, TokState))

TokReturn ==
  /\ pc = "tokenize"
  /\ p >= Len(file_content)
  /\ result' = TokFinal(TokState)
  /\ token' = <<>>
  /\ pc' = "tokenized"
  /\ UNCHANGED <<file_content, filename, p, rewriteVars>>

---------------------------------------------------------------------------
(* The collaborators of rewrite_source_paths.  Their code is not part of   *)
(* src/; they are modelled from what the specification says of them.       *)

Blank(c) == c \in {" ", "\t"}

\* util::Tokenizer(file_content, "\n", include_empty, IncludeDelimiter::yes):
\* the lines of the text, each with its newline, the rest after the last
\* newline (possibly empty) being the last line
RECURSIVE SplitLines(_, _)
SplitLines(s, line) ==
  IF s = <<>> THEN <<line>>
  ELSE IF Head(s) = "\n" THEN <<Append(line, "\n")>> \o SplitLines(Tail(s), <<>>)
  ELSE SplitLines(Tail(s), Append(line, Head(s)))

Lines(s) == SplitLines(s, <<>>)

\* Util::split_into_views(line, " \t"): the maximal runs of characters other
\* than space and tab
RECURSIVE SplitBlanks(_, _)
SplitBlanks(s, chunk) ==
  IF s = <<>> THEN (IF chunk = <<>> THEN <<>> ELSE <<chunk>>)
  ELSE IF Blank(Head(s))
  THEN (IF chunk = <<>> THEN <<>> ELSE <<chunk>>) \o SplitBlanks(Tail(s), <<>>)
  ELSE SplitBlanks(Tail(s), Append(chunk, Head(s)))

split_into_views(line) == SplitBlanks(line, <<>>)

\* util::is_absolute_path, POSIX form
is_absolute_path(path) == path # <<>> /\ path[1] = "/"

StartsWith(s, prefix) ==
  Len(prefix) <= Len(s) /\ SubSeq(s, 1, Len(prefix)) = prefix

RECURSIVE DropSlashes(_)
DropSlashes(s) ==
  IF s # <<>> /\ Head(s) = "/" THEN DropSlashes(Tail(s)) ELSE s

\* Util::make_relative_path: a path under the base directory in its relative
\* form, any other path as it is
make_relative_path(base, path) ==
  LET rest == SubSeq(path, Len(base) + 1, Len(path))
  IN  IF StartsWith(path, base) /\ (rest = <<>> \/ Head(rest) = "/")
      THEN (IF DropSlashes(rest) = <<>> THEN <<".">> ELSE DropSlashes(rest))
      ELSE path

---------------------------------------------------------------------------
(* Depfile::rewrite_source_paths                                           *)

\* std::string_view::find(base) != npos
Contains(s, sub) ==
  \E k \in 0..(Len(s) - Len(sub)) : SubSeq(s, k + 1, k + Len(sub)) = sub

\* ASSERT(!ctx.config.base_dir().empty())
AssertBaseDir(base) == base # <<>>

\* no fast path
FastPathNever(content, base) == FALSE

\* "Fast path for the common case"
FastPath(content, base) == ~Contains(content, base)

NullOpt == [has_value |-> FALSE, value |-> <<>>]
Some(s) == [has_value |-> TRUE, value |-> s]

\* the space is pushed between tokens only, never before the first
NeedsSpaceInner(k, line) == k > 0

\* the space is pushed before every token of an indented line only
NeedsSpaceIndented(k, line) == line[1] = " " \/ line[1] = "\t"

\* the separating space pushed before token i of a line
NeedsSpace(k, line) == k > 0 \/ line[1] = " " \/ line[1] = "\t"

\* the test without seen_target_token
IsCandidateAnySide(seen, tok) == is_absolute_path(tok)

\* a token is handed to make_relative_path
IsCandidate(seen, tok) == seen /\ is_absolute_path(tok)

\* token_rewritten
TokenRewritten(seen, tok, base) ==
  IsCandidate(seen, tok) /\ make_relative_path(base, tok) # tok

\* what is appended for the token
Emitted(seen, tok, base) ==
  IF TokenRewritten(seen, tok, base) THEN make_relative_path(base, tok) ELSE tok

\* the flag assigned from the token instead of being set once
SeenAfterAssigned(seen, tok) == tok[Len(tok)] = ":"

\* seen_target_token after the token
SeenAfter(seen, tok) == seen \/ tok[Len(tok)] = ":"

\* the reconstructed text returned whether or not a path was replaced
RewriteResultAlways(rewritten, adjusted) == Some(adjusted)

\* the value returned after the loops
RewriteResult(rewritten, adjusted) ==
  IF rewritten THEN Some(adjusted) ELSE NullOpt

CurLine == Lines(file_content)[line_no]
CurTokens == split_into_views(CurLine)

\* the assertion fails: the process is aborted inside rewrite_source_paths
RewriteAssertFails ==
  /\ pc = "rewrite"
  /\ ~AssertBaseDir(base_dir)
  /\ pc' = "aborted"
  /\ UNCHANGED <<file_content, filename, tokVars, rewriteVars>>

RewriteEntryFast ==
  /\ pc = "rewrite"
  /\ AssertBaseDir(base_dir)
  /\ FastPath(file_content, base_dir)
  /\ out' = NullOpt
  /\ pc' = "returned"
  /\ UNCHANGED <<file_content, filename, tokVars, base_dir, rewriteLocals,
                 offered, pass, first_input, depVars>>

RewriteEntryScan ==
  /\ pc = "rewrite"
  /\ AssertBaseDir(base_dir)
  /\ ~FastPath(file_content, base_dir)
  /\ pc' = "scan"
  /\ line_no' = 1
  /\ i' = 0
  /\ adjusted_file_content' = <<>>
  /\ content_rewritten' = FALSE
  /\ seen_target_token' = FALSE
  /\ UNCHANGED <<file_content, filename, tokVars, base_dir, offered, out, pass,
                 first_input, depVars>>

\* one iteration of the inner loop
AtToken ==
  /\ pc = "scan"
  /\ line_no <= Len(Lines(file_content))
  /\ i < Len(CurTokens)

ProcessToken(tok) ==
  /\ offered' = IF IsCandidate(seen_target_token, tok)
                THEN Append(offered, [line |-> line_no, index |-> i, path |-> tok])
                ELSE offered
  /\ adjusted_file_content' =
       adjusted_file_content
         \o (IF NeedsSpace(i, CurLine) THEN <<" ">> ELSE <<>>)
         \o Emitted(seen_target_token, tok, base_dir)
  /\ content_rewritten' =
       (content_rewritten \/ TokenRewritten(seen_target_token, tok, base_dir))
  /\ seen_target_token' = SeenAfter(seen_target_token, tok)
  /\ i' = i + 1
  /\ UNCHANGED <<pc, file_content, filename, tokVars, base_dir, line_no, out,
                 pass, first_input, depVars>>

TokenReplaced ==
  /\ AtToken
  /\ TokenRewritten(seen_target_token, CurTokens[i + 1], base_dir)
  /\ ProcessToken(CurTokens[i + 1])

TokenKept ==
  /\ AtToken
  /\ ~TokenRewritten(seen_target_token, CurTokens[i + 1], base_dir)
  /\ ProcessToken(CurTokens[i + 1])

\* the inner loop is over: the outer loop takes the next line
NextLine ==
  /\ pc = "scan"
  /\ line_no <= Len(Lines(file_content))
  /\ i >= Len(CurTokens)
  /\ line_no' = line_no + 1
  /\ i' = 0
  /\ UNCHANGED <<pc, file_content, filename, tokVars, base_dir,
                 adjusted_file_content, content_rewritten, seen_target_token,
                 offered, out, pass, first_input, depVars>>

RewriteReturn ==
  /\ pc = "scan"
  /\ line_no > Len(Lines(file_content))
  /\ out' = RewriteResult(content_rewritten, adjusted_file_content)
  /\ pc' = "returned"
  /\ UNCHANGED <<file_content, filename, tokVars, base_dir, rewriteLocals,
                 offered, pass, first_input, depVars>>

\* the text a caller holds after rewrite returned: the new content, or the
\* text as it was when no rewrite occurred
TextAfter == IF out.has_value THEN out.value ELSE file_content

\* rewrite_source_paths is applied to the text the first application left
RewriteAgain ==
  /\ pc = "returned"
  /\ pass = 1
  /\ pass' = 2
  /\ file_content' = TextAfter
  /\ pc' = "rewrite"
  /\ offered' = <<>>
  /\ out' = NullOpt
  /\ line_no' = 1
  /\ i' = 0
  /\ adjusted_file_content' = <<>>
  /\ content_rewritten' = FALSE
  /\ seen_target_token' = FALSE
  /\ UNCHANGED <<filename, tokVars, base_dir, first_input, depVars>>

RewriteNext ==
  \/ RewriteEntryFast
  \/ RewriteEntryScan
  \/ TokenReplaced
  \/ TokenKept
  \/ NextLine
  \/ RewriteReturn
  \/ RewriteAgain

---------------------------------------------------------------------------
(* Depfile::make_paths_relative_in_output_dep.  util::read_file and        *)
(* util::write_file are not part of src/; they are modelled from what the  *)
(* specification says of them.                                             *)

\* util::read_file<std::string>(output_dep): the content, or a failure
read_file(file) ==
  IF file.readable THEN [ok |-> TRUE, value |-> file.content]
  ELSE [ok |-> FALSE, value |-> <<>>]

\* util::write_file(output_dep, content): the file holds the content
write_file(file, content) == [readable |-> TRUE, content |-> content]

\* the orchestrator goes on without a base directory
SkipsWithoutBaseDirNever(base) == FALSE

\* "Base dir not set, skip using relative paths"
SkipsWithoutBaseDir(base) == base = <<>>

\* the file is written whatever rewrite_source_paths returned
WritesBackAlways(new_content) == TRUE

\* if (new_content)
WritesBack(new_content) == new_content.has_value

DepSkipNoBaseDir ==
  /\ dep_pc = "entry"
  /\ SkipsWithoutBaseDir(base_dir)
  /\ dep_pc' = "done"
  /\ UNCHANGED <<pc, file_content, filename, tokVars, base_dir, rewriteLocals,
                 offered, out, pass, first_input, output_dep, dep_before,
                 reads, writes>>

DepReadFails ==
  /\ dep_pc = "entry"
  /\ ~SkipsWithoutBaseDir(base_dir)
  /\ ~read_file(output_dep).ok
  /\ reads' = reads + 1
  /\ dep_pc' = "done"
  /\ UNCHANGED <<pc, file_content, filename, tokVars, base_dir, rewriteLocals,
                 offered, out, pass, first_input, output_dep, dep_before,
                 writes>>

\* the file was read: rewrite_source_paths is called with its content
DepRead ==
  /\ dep_pc = "entry"
  /\ ~SkipsWithoutBaseDir(base_dir)
  /\ read_file(output_dep).ok
  /\ reads' = reads + 1
  /\ file_content' = read_file(output_dep).value
  /\ first_input' = read_file(output_dep).value
  /\ pc' = "rewrite"
  /\ dep_pc' = "rewriting"
  /\ UNCHANGED <<filename, tokVars, base_dir, rewriteLocals, offered, out, pass,
                 output_dep, dep_before, writes>>

DepWrite ==
  /\ dep_pc = "rewriting"
  /\ pc = "returned"
  /\ WritesBack(out)
  /\ writes' = Append(writes, out.value)
  /\ output_dep' = write_file(output_dep, out.value)
  /\ dep_pc' = "done"
  /\ UNCHANGED <<pc, file_content, filename, tokVars, base_dir, rewriteLocals,
                 offered, out, pass, first_input, dep_before, reads>>

\* "No paths in dependency file {} made relative"
DepNoWrite ==
  /\ dep_pc = "rewriting"
  /\ pc = "returned"
  /\ ~WritesBack(out)
  /\ dep_pc' = "done"
  /\ UNCHANGED <<pc, file_content, filename, tokVars, base_dir, rewriteLocals,
                 offered, out, pass, first_input, output_dep, dep_before,
                 reads, writes>>

DepNext ==
  \/ DepSkipNoBaseDir
  \/ DepReadFails
  \/ DepRead
  \/ RewriteAssertFails
  \/ RewriteEntryFast
  \/ RewriteEntryScan
  \/ TokenReplaced
  \/ TokenKept
  \/ NextLine
  \/ RewriteReturn
  \/ DepWrite
  \/ DepNoWrite

---------------------------------------------------------------------------
(* Inputs.                                                                 *)

\* the longest enumerated dependency file handed to rewrite
MaxContentLen == 6

\* the characters rewrite inputs are enumerated over
ContentAlphabet == {"a", ":", " ", "\n", "/"}

BaseDir == <<"/", "a">>

CatMeow == <<"c", "a", "t", ":", "/", "m", "e", "o", "w">>
CatColonColonDep == <<"c", "a", "t", " ", ":", " ", ":", " ", "d", "e", "p">>
DriveMeow == <<"c", ":", "/", "m", "e", "o", "w">>
QuotedExample == <<"a", " ", "\"", "b", " ", "c", "\"", " ", "d">>
EscapedSpaceExample == <<"a", "\\", " ", "b">>
DollarExample == <<"a", "$", "$", "b">>
\* two names, the second on a continuation line
ContinuationExample == <<"a", "b", "\\", "\n", "c", "d">>

TokExamples ==
  {CatMeow, CatColonColonDep, DriveMeow, QuotedExample, EscapedSpaceExample,
   DollarExample, ContinuationExample}

TokInputs == TextsUpTo(TokAlphabet, MaxLen) \cup TokExamples

Filenames == TextsUpTo(NameAlphabet, MaxNameLen)

\* "a b: c /abs/d" with base dir /abs
BoundaryExample ==
  <<"a", " ", "b", ":", " ", "c", " ", "/", "a", "b", "s", "/", "d">>
BoundaryBase == <<"/", "a", "b", "s">>

\* a rule wrapped over two lines, tab-indented, with runs of blanks
WrappedExample ==
  <<"a", ":", " ", " ", "/", "a", "/", "a", " ", "\\", "\n",
    "\t", "/", "a", "/", "b", "\n">>
\* an escaped space before a blank, then a path under the base directory
EscapedBlankExample == <<"a", ":", " ", "a", "\\", " ", " ", "/", "a", "/", "a">>
\* an indented first line, and a second line whose tokens are "/" and "a"
MergeExample == <<" ", ":", " ", "/", "a", " ", "\n", "/", " ", "a">>
\* a target under the base directory, and a prerequisite under it
TargetUnderBaseExample == <<"/", "a", "/", "a", ":", " ", "/", "a", "/", "a">>
\* a token ending in an escaped colon, then a path under the base directory
EscapedColonExample == <<"a", "\\", ":", " ", "/", "a", "/", "a">>

\* a prerequisite under the base directory and one beside it
SiblingExample == <<"a", ":", " ", "/", "a", "/", "a", " ", "/", "a", "a">>

RewriteExamples ==
  {WrappedExample, EscapedBlankExample, MergeExample, TargetUnderBaseExample,
   EscapedColonExample, SiblingExample}

\* the longest enumerated dependency file on disk
MaxDepLen == 5

DepContents == TextsUpTo(ContentAlphabet, MaxDepLen) \cup RewriteExamples

\* a file that cannot be read, or a file with any content
DepFiles ==
  {[readable |-> FALSE, content |-> <<>>]}
    \cup {[readable |-> TRUE, content |-> c] : c \in DepContents}

RewriteInputs ==
  {<<BaseDir, c>> : c \in TextsUpTo(ContentAlphabet, MaxContentLen) \cup RewriteExamples}
    \cup {<<BoundaryBase, BoundaryExample>>}

---------------------------------------------------------------------------
(* The specifications.                                                     *)

TokIdle == /\ p = 0 /\ token = <<>> /\ result = <<>>

RewriteIdle ==
  /\ line_no = 1
  /\ i = 0
  /\ adjusted_file_content = <<>>
  /\ content_rewritten = FALSE
  /\ seen_target_token = FALSE
  /\ offered = <<>>
  /\ out = NullOpt
  /\ pass = 1

DepIdle ==
  /\ dep_pc = "none"
  /\ output_dep = [readable |-> FALSE, content |-> <<>>]
  /\ dep_before = output_dep
  /\ reads = 0
  /\ writes = <<>>

\* tokenize is called with any text
InitTok ==
  /\ pc = "tokenize"
  /\ file_content \in TokInputs
  /\ filename = <<>>
  /\ TokIdle
  /\ base_dir = BaseDir
  /\ RewriteIdle
  /\ first_input = <<>>
  /\ DepIdle

\* or escape_filename(filename) + ":" is built first, then tokenized
InitRoundTrip ==
  /\ pc = "escape"
  /\ filename \in Filenames
  /\ file_content = <<>>
  /\ TokIdle
  /\ base_dir = BaseDir
  /\ RewriteIdle
  /\ first_input = <<>>
  /\ DepIdle

EscapeFilename ==
  /\ pc = "escape"
  /\ file_content' = Append(escape_filename(filename), ":")
  /\ pc' = "tokenize"
  /\ UNCHANGED <<filename, tokVars, rewriteVars>>

Init == InitTok \/ InitRoundTrip

Next ==
  \/ EscapeFilename
  \/ TokDriveColon
  \/ TokSeparator
  \/ TokBackslash
  \/ TokDollar
  \/ TokQuote
  \/ TokPlain
  \/ TokReturn

Spec == Init /\ [][Next]_vars

\* rewrite_source_paths is called with any text, then with what it left
InitRewrite ==
  /\ pc = "rewrite"
  /\ \E input \in RewriteInputs :
       /\ base_dir = input[1]
       /\ file_content = input[2]
  /\ first_input = file_content
  /\ filename = <<>>
  /\ TokIdle
  /\ RewriteIdle
  /\ DepIdle

SpecRewrite == InitRewrite /\ [][RewriteNext]_vars

\* make_paths_relative_in_output_dep is called, with or without a base
\* directory, on a file that can or cannot be read
InitOrchestrator ==
  /\ pc = "make_paths_relative"
  /\ dep_pc = "entry"
  /\ base_dir \in {<<>>, BaseDir}
  /\ output_dep \in DepFiles
  /\ dep_before = output_dep
  /\ reads = 0
  /\ writes = <<>>
  /\ file_content = <<>>
  /\ first_input = <<>>
  /\ filename = <<>>
  /\ TokIdle
  /\ RewriteIdle

\* or rewrite_source_paths is called by someone else without a base directory
InitRewriteNoBaseDir ==
  /\ pc = "rewrite"
  /\ base_dir = <<>>
  /\ file_content \in DepContents
  /\ first_input = file_content
  /\ filename = <<>>
  /\ TokIdle
  /\ RewriteIdle
  /\ DepIdle

InitDep == InitOrchestrator \/ InitRewriteNoBaseDir

SpecDep == InitDep /\ [][DepNext]_vars

---------------------------------------------------------------------------
(* Properties of tokenize and escape_filename, checked under Spec.         *)

AtLoopHead == pc = "tokenize" /\ p < Len(file_content)

\* C1: tokenize is total; every iteration of the main loop makes progress
\* through the input (the read position p grows in every iteration).
TokenizeMakesProgress ==
  AtLoopHead => TokIter(file_content, TokState).p > p

\* the run tokenizes escape_filename(filename) + ":"
RoundTripRun ==
  /\ pc \in {"tokenize", "tokenized"}
  /\ file_content = Append(escape_filename(filename), ":")

\* C2, as the specification states it: for every filename f,
\* tokenize(escape_filename(f) + ":") returns exactly one token, which is f
\* followed by the target-terminator colon.
RoundTripAnyFilename ==
  RoundTripRun /\ pc = "tokenized" => result = <<Append(filename, ":")>>

\* a filename the Makefile escapes can express as one token: not blank, no
\* double quote, no whitespace other than space and tab
Escapable(name) ==
  /\ ~is_blank(name)
  /\ \A k \in 1..Len(name) :
       /\ name[k] # "\""
       /\ isspace(name[k]) => name[k] \in {" ", "\t"}

\* C2, amended: for every filename f that is not blank and holds no double
\* quote and no whitespace other than space and tab, the tokenizer run over
\* escape_filename(f) + ":" advances in every iteration and returns exactly
\* one token, f followed by the colon.
RoundTripEscapable ==
  RoundTripRun /\ Escapable(filename) =>
    /\ AtLoopHead => TokIter(file_content, TokState).p > p
    /\ pc = "tokenized" => result = <<Append(filename, ":")>>

\* a filename with a backslash, a colon and a space went round
RoundTripWitness ==
  /\ RoundTripRun
  /\ pc = "tokenized"
  /\ Escapable(filename)
  /\ {"\\", ":", " "} \subseteq {filename[k] : k \in 1..Len(filename)}
  /\ result = <<Append(filename, ":")>>

\* the input has no escape character and no quote
PlainText(s) == \A k \in 1..Len(s) : s[k] \notin {"\\", "\"", "$"}

\* C3, as the specification states it: tokenize("cat:/meow") returns
\* ["cat", "/meow"], and no emitted token holds a colon that was a separator
\* (in a text without escapes and quotes, the only colon a token may hold is
\* the drive-letter colon, second character before a slash).
ColonSeparatorDropped ==
  pc = "tokenized" =>
    /\ file_content = CatMeow =>
         result = <<<<"c", "a", "t">>, <<"/", "m", "e", "o", "w">>>>
    /\ PlainText(file_content) =>
         \A t \in Range(result) : \A k \in 1..Len(t) :
           t[k] = ":" => k = 2 /\ k < Len(t) /\ t[k + 1] = "/"

\* C3, amended: a colon that directly follows a token of two or more
\* characters ends that token and is kept as its last character:
\* tokenize("cat:/meow") returns ["cat:", "/meow"]; in a text without escapes
\* and quotes a colon occurs in an emitted token only as its last character
\* (the separator that ended it) or as a drive-letter colon.
ColonSeparatorGlued ==
  /\ AtLoopHead /\ At(file_content, p) = ":" /\ Len(token) >= 2 /\ ~is_blank(token) =>
       LET n == TokIter(file_content, TokState)
       IN  /\ n.result = Append(result, Append(token, ":"))
           /\ n.token = <<>>
           /\ n.p > p
  /\ pc = "tokenized" =>
       /\ file_content = CatMeow =>
            result = <<<<"c", "a", "t", ":">>, <<"/", "m", "e", "o", "w">>>>
       /\ PlainText(file_content) =>
            \A t \in Range(result) : \A k \in 1..Len(t) :
              t[k] = ":" =>
                \/ k = Len(t)
                \/ k = 2 /\ t[k + 1] = "/"

\* "cat:/meow" was tokenized, the colon staying with "cat"
ColonSeparatorWitness ==
  /\ pc = "tokenized"
  /\ file_content = CatMeow
  /\ Len(result) = 2
  /\ result[1] = <<"c", "a", "t", ":">>

\* C4: tokenize("cat : : dep") returns exactly ["cat:", "dep"]: the run never
\* reaches an iteration that repeats itself, and what it returns is that.
DoubleColonGlued ==
  file_content = CatColonColonDep =>
    /\ pc = "tokenize" => ~Stuck(file_content, TokState)
    /\ pc = "tokenized" =>
         result = <<<<"c", "a", "t", ":">>, <<"d", "e", "p">>>>

\* C11: a ':' met by the main loop is appended to the current token as a
\* literal character, without ending the token, exactly when the token
\* accumulated so far is one non-blank character long and the character right
\* after the colon is '/' or '\'; tokenize("c:/meow") returns ["c:/meow"].
DriveColonKept ==
  /\ AtLoopHead /\ At(file_content, p) = ":" =>
       LET n == TokIter(file_content, TokState)
           kept == /\ n.token = Append(token, ":")
                   /\ n.result = result
                   /\ n.p = p + 1
           drive == /\ Len(token) = 1
                    /\ ~isspace(token[1])
                    /\ p + 1 < Len(file_content)
                    /\ At(file_content, p + 1) \in {"/", "\\"}
       IN  kept <=> drive
  /\ pc = "tokenized" /\ file_content = DriveMeow => result = <<DriveMeow>>

\* "c:/meow" came back as one token
DriveColonWitness ==
  /\ pc = "tokenized"
  /\ file_content = DriveMeow
  /\ result = <<DriveMeow>>

\* C15: a '"' opens a quoted span; the characters up to the next '"' are
\* appended to the token verbatim, with no escape processing and no splitting
\* on whitespace or colon, and neither quote becomes part of the token;
\* tokenize("a \"b c\" d") returns ["a", "b c", "d"].
QuotedSpanVerbatim ==
  /\ AtLoopHead /\ At(file_content, p) = "\"" =>
       LET n == TokIter(file_content, TokState)
           closing == {q \in (p + 1)..(Len(file_content) - 1) :
                         At(file_content, q) = "\""}
       IN  /\ n.result = result
           /\ \E len \in 0..(Len(file_content) - p - 1) :
                /\ n.token = token \o SubSeq(file_content, p + 2, p + 1 + len)
                /\ \A k \in (p + 1)..(p + len) : At(file_content, k) # "\""
                /\ IF closing = {}
                   THEN n.p = Len(file_content) /\ p + 1 + len = Len(file_content)
                   ELSE n.p = p + len + 2 /\ (p + 1 + len) \in closing
  /\ pc = "tokenized" /\ file_content = QuotedExample =>
       result = <<<<"a">>, <<"b", " ", "c">>, <<"d">>>>

\* "a \"b c\" d" was tokenized: the quoted blank stayed inside one token
QuotedSpanWitness ==
  /\ pc = "tokenized"
  /\ file_content = QuotedExample
  /\ result[2] = <<"b", " ", "c">>

\* the characters a backslash escapes
Escaped == {"\\", "#", ":", " ", "\t"}

\* a backslash or a '$' is read and a character follows it
AtEscape(c) ==
  AtLoopHead /\ At(file_content, p) = c /\ p + 1 < Len(file_content)

\* the iteration appends the character c alone, reads `consumed` characters
\* and emits nothing
Contributes(n, c, consumed) ==
  /\ n.token = Append(token, c)
  /\ n.p = p + consumed
  /\ n.result = result

\* C16, as the specification states it: outside quotes a backslash followed
\* by one of backslash, '#', ':', space or tab contributes exactly that
\* character (the backslash is dropped, the character is no separator) and
\* "$$" contributes one '$'; a backslash or '$' followed by any other
\* character is kept literally; tokenize("a\ b") returns ["a b"] and
\* tokenize("a$$b") returns ["a$b"].
EscapesDecodedOthersKept ==
  /\ AtEscape("\\") =>
       LET n == TokIter(file_content, TokState)
           next == At(file_content, p + 1)
       IN  IF next \in Escaped THEN Contributes(n, next, 2)
           ELSE Contributes(n, "\\", 1)
  /\ AtEscape("$") =>
       LET n == TokIter(file_content, TokState)
       IN  IF At(file_content, p + 1) = "$" THEN Contributes(n, "$", 2)
           ELSE Contributes(n, "$", 1)
  /\ pc = "tokenized" /\ file_content = EscapedSpaceExample =>
       result = <<<<"a", " ", "b">>>>
  /\ pc = "tokenized" /\ file_content = DollarExample =>
       result = <<<<"a", "$", "b">>>>

\* C16, amended: outside quotes a backslash followed by one of backslash,
\* '#', ':', space or tab contributes exactly that character and "$$"
\* contributes one '$'; a backslash followed by any other character except a
\* newline, and a '$' followed by any other character, is kept literally; a
\* backslash followed by a newline is not kept, it contributes nothing;
\* tokenize("a\ b") returns ["a b"] and tokenize("a$$b") returns ["a$b"].
EscapesDecodedOthersKeptButNewline ==
  /\ AtEscape("\\") =>
       LET n == TokIter(file_content, TokState)
           next == At(file_content, p + 1)
       IN  IF next \in Escaped THEN Contributes(n, next, 2)
           ELSE IF next = "\n"
           THEN n.token = token /\ n.p = p + 1 /\ n.result = result
           ELSE Contributes(n, "\\", 1)
  /\ AtEscape("$") =>
       LET n == TokIter(file_content, TokState)
       IN  IF At(file_content, p + 1) = "$" THEN Contributes(n, "$", 2)
           ELSE Contributes(n, "$", 1)
  /\ pc = "tokenized" /\ file_content = EscapedSpaceExample =>
       result = <<<<"a", " ", "b">>>>
  /\ pc = "tokenized" /\ file_content = DollarExample =>
       result = <<<<"a", "$", "b">>>>

\* an escaped '#', an escaped tab and a "$$" were decoded into one token
EscapesDecodedWitness ==
  /\ pc = "tokenized"
  /\ filename = <<"#", "\t", "$">>
  /\ file_content = <<"\\", "#", "\\", "\t", "$", "$", ":">>
  /\ result = <<<<"#", "\t", "$", ":">>>>

\* the characters escape_filename writes two characters for
TwoCharacters(c) == c \in Escaped \cup {"$"}

\* where the output for character k of the name begins
EscapedFrom(name, k) ==
  k + Cardinality({j \in 1..(k - 1) : TwoCharacters(name[j])})

\* esc holds, for every character of name in order, a backslash and the
\* character, or "$$", or the character alone, and nothing else
EscapedPerCharacter(name, esc) ==
  /\ Len(esc) =
       Len(name) + Cardinality({j \in 1..Len(name) : TwoCharacters(name[j])})
  /\ \A k \in 1..Len(name) :
       LET from == EscapedFrom(name, k)
           c == name[k]
       IN  IF c = "$" THEN esc[from] = "$" /\ esc[from + 1] = "$"
           ELSE IF c \in Escaped THEN esc[from] = "\\" /\ esc[from + 1] = c
           ELSE esc[from] = c

\* C17: escape_filename is total and outputs, for each input character in
\* order, a backslash followed by the character for backslash, '#', ':',
\* space and tab, "$$" for '$', and the character itself otherwise; the empty
\* input gives the empty output; nothing is added, removed or reordered.
EscapeFilenamePerCharacter ==
  /\ pc = "escape" =>
       /\ EscapedPerCharacter(filename, escape_filename(filename))
       /\ filename = <<>> => escape_filename(filename) = <<>>
  /\ pc # "escape" /\ filename # <<>> =>
       /\ file_content # <<>>
       /\ file_content[Len(file_content)] = ":"
       /\ EscapedPerCharacter(filename,
                              SubSeq(file_content, 1, Len(file_content) - 1))

\* a name with a plain character, a '$' and a tab was escaped
EscapeFilenameWitness ==
  /\ pc = "tokenize"
  /\ p = 0
  /\ filename = <<"a", "$", "\t">>
  /\ file_content = <<"a", "$", "$", "\\", "\t", ":">>

\* later is earlier, or earlier with one more token at its end
SameOrOneMore(earlier, later) ==
  \/ later = earlier
  \/ /\ Len(later) = Len(earlier) + 1
     /\ SubSeq(later, 1, Len(earlier)) = earlier

\* C18: every token of the sequence tokenize builds and returns is non-empty
\* and not all-whitespace; a blank accumulation (an escaped space or a quoted
\* blank alone included) is discarded, never emitted; tokens are appended in
\* the order in which they end in the text.
NoBlankToken ==
  /\ \A k \in 1..Len(result) :
       /\ result[k] # <<>>
       /\ \E j \in 1..Len(result[k]) : ~isspace(result[k][j])
  /\ AtLoopHead =>
       LET n == TokIter(file_content, TokState)
       IN  /\ SameOrOneMore(result, n.result)
           /\ is_blank(token) /\ n.token = <<>> => n.result = result
  /\ pc = "tokenize" /\ p >= Len(file_content) =>
       /\ SameOrOneMore(result, TokFinal(TokState))
       /\ is_blank(token) => TokFinal(TokState) = result

\* an escaped space followed by a space was discarded, the next token kept
BlankDiscardedWitness ==
  /\ pc = "tokenized"
  /\ file_content = <<"\\", " ", " ", "a">>
  /\ result = <<<<"a">>>>

\* a '"' is read and no '"' comes after it
AtUnterminatedQuote ==
  /\ AtLoopHead
  /\ At(file_content, p) = "\""
  /\ \A k \in (p + 1)..(Len(file_content) - 1) : At(file_content, k) # "\""

\* a backslash or a '$' is read and it is the last character
AtTrailingEscape ==
  /\ AtLoopHead
  /\ p = Len(file_content) - 1
  /\ At(file_content, p) \in {"\\", "$"}

\* the iteration from an unterminated quote takes everything up to the end
\* of the input into the token and ends the loop
RestAccumulated(n) ==
  /\ n.token = token \o SubSeq(file_content, p + 2, Len(file_content))
  /\ n.result = result
  /\ n.p = Len(file_content)

\* the iteration from a trailing backslash or '$' appends it and ends the loop
TrailingEscapeKept(n) ==
  /\ n.token = Append(token, At(file_content, p))
  /\ n.result = result
  /\ n.p = Len(file_content)

\* C19, as the specification states it: with an unterminated '"' every
\* remaining character up to the end of the input is appended to the
\* in-progress token, which is then emitted as the final token; a backslash
\* or '$' that is the last character is appended literally; in both cases the
\* loop ends there and no character beyond the end of the input is read.
UnterminatedQuoteEmitted ==
  /\ pc \in {"tokenize", "tokenized"} => p <= Len(file_content)
  /\ AtUnterminatedQuote =>
       LET n == TokIter(file_content, TokState)
       IN  /\ RestAccumulated(n)
           /\ TokFinal(n) = Append(result, n.token)
  /\ AtTrailingEscape => TrailingEscapeKept(TokIter(file_content, TokState))

\* C19, amended: with an unterminated '"' every remaining character up to
\* the end of the input is appended to the in-progress token, which is then
\* emitted as the final token unless it is blank (a blank token is dropped
\* and nothing is emitted for it); a backslash or '$' that is the last
\* character is appended literally; in both cases the loop ends there and no
\* character beyond the end of the input is read.
UnterminatedQuoteEmittedUnlessBlank ==
  /\ pc \in {"tokenize", "tokenized"} => p <= Len(file_content)
  /\ AtUnterminatedQuote =>
       LET n == TokIter(file_content, TokState)
       IN  /\ RestAccumulated(n)
           /\ \/ /\ \E j \in 1..Len(n.token) : ~isspace(n.token[j])
                 /\ TokFinal(n) = Append(result, n.token)
              \/ /\ \A j \in 1..Len(n.token) : isspace(n.token[j])
                 /\ TokFinal(n) = result
  /\ AtTrailingEscape => TrailingEscapeKept(TokIter(file_content, TokState))

\* an unterminated quote took a blank and a colon into the final token
UnterminatedQuoteWitness ==
  /\ pc = "tokenized"
  /\ file_content = <<"a", "\"", " ", ":">>
  /\ result = <<<<"a", " ", ":">>>>

\* a backslash is read and a newline follows it
AtContinuation ==
  /\ AtLoopHead
  /\ At(file_content, p) = "\\"
  /\ p + 1 < Len(file_content)
  /\ At(file_content, p + 1) = "\n"

\* C20: outside quotes a backslash immediately followed by a newline
\* contributes nothing to any token and the pair behaves like whitespace:
\* the text before it and the text on the next line become separate tokens,
\* in order.
LineContinuationSeparates ==
  /\ AtContinuation =>
       LET n == TokIter(file_content, TokState)
           m == TokIter(file_content, n)
       IN  /\ n.token = token /\ n.result = result /\ n.p = p + 1
           /\ m.token = <<>>
           /\ m.p > n.p
           /\ \A k \in (p + 1)..(m.p - 1) :
                isspace(At(file_content, k)) \/ At(file_content, k) = ":"
           /\ IF is_blank(token) THEN m.result = result
              ELSE m.result \in {Append(result, token),
                                 Append(result, Append(token, ":"))}
  /\ pc = "tokenized" /\ file_content = ContinuationExample =>
       result = <<<<"a", "b">>, <<"c", "d">>>>

\* the names before and after a backslash-newline came back as two tokens
LineContinuationWitness ==
  /\ pc = "tokenized"
  /\ file_content = ContinuationExample
  /\ result = <<<<"a", "b">>, <<"c", "d">>>>

---------------------------------------------------------------------------
(* Properties of rewrite_source_paths, checked under SpecRewrite.          *)

\* the tokens of line ln of a text, each with its place
LineEntries(content, ln) ==
  LET toks == split_into_views(Lines(content)[ln])
  IN  [k \in 1..Len(toks) |-> [line |-> ln, index |-> k - 1, path |-> toks[k]]]

RECURSIVE EntriesFrom(_, _)
EntriesFrom(content, ln) ==
  IF ln > Len(Lines(content)) THEN <<>>
  ELSE LineEntries(content, ln) \o EntriesFrom(content, ln + 1)

\* every token of a text, in the order the two loops visit them
AllEntries(content) == EntriesFrom(content, 1)

Before(e, ln, idx) == e.line < ln \/ (e.line = ln /\ e.index < idx)

\* the tokens the loops are done with
Scanned == SelectSeq(AllEntries(file_content), LAMBDA e : Before(e, line_no, i))

EndsWithColon(tok) == tok[Len(tok)] = ":"

RECURSIVE TrailingBackslashes(_)
TrailingBackslashes(s) ==
  IF s # <<>> /\ s[Len(s)] = "\\"
  THEN 1 + TrailingBackslashes(SubSeq(s, 1, Len(s) - 1))
  ELSE 0

\* the last character is a colon that no backslash escapes
EndsWithUnescapedColon(tok) ==
  /\ tok[Len(tok)] = ":"
  /\ TrailingBackslashes(SubSeq(tok, 1, Len(tok) - 1)) % 2 = 0

\* the absolute tokens that come after a token that Ends
ExpectedOffers(entries, Ends(_)) ==
  SelectSeq(entries,
            LAMBDA e : /\ is_absolute_path(e.path)
                       /\ \E d \in Range(entries) :
                            Before(d, e.line, e.index) /\ Ends(d.path))

\* the fast path was not taken: the two loops run, or have run
ScanRuns == pc \in {"scan", "returned"} /\ ~FastPath(file_content, base_dir)

\* C5, as the specification states it: the scan is target-side until the
\* first token that ends with an unescaped colon and prerequisite-side for
\* every token after it, on any line; exactly the absolute tokens after such
\* a token are handed to make_relative_path.
PrerequisiteSideAfterUnescapedColon ==
  ScanRuns =>
    /\ seen_target_token = (\E d \in Range(Scanned) : EndsWithUnescapedColon(d.path))
    /\ offered = ExpectedOffers(Scanned, EndsWithUnescapedColon)

\* C5, amended: the scan is target-side until the first whitespace-delimited
\* token whose last character is a colon, escaped or not, and
\* prerequisite-side for every token after it, on the same line or on any
\* later line; when the scan runs, exactly the absolute tokens after such a
\* token are handed to make_relative_path.
PrerequisiteSideAfterColonToken ==
  ScanRuns =>
    /\ seen_target_token = (\E d \in Range(Scanned) : EndsWithColon(d.path))
    /\ offered = ExpectedOffers(Scanned, EndsWithColon)

\* a token of a later line was handed over on account of a colon of line 1
PrerequisiteOnLaterLineWitness ==
  /\ pc = "returned"
  /\ pass = 1
  /\ \E d \in Range(AllEntries(file_content)) : d.line = 1 /\ EndsWithColon(d.path)
  /\ \E o \in Range(offered) : o.line > 1

Indent(line) ==
  LET n == CHOOSE n \in 0..Len(line) :
             /\ \A k \in 1..n : Blank(line[k])
             /\ n < Len(line) => ~Blank(line[n + 1])
  IN  SubSeq(line, 1, n)

RECURSIVE JoinWithSpace(_)
JoinWithSpace(toks) ==
  IF toks = <<>> THEN <<>>
  ELSE IF Len(toks) = 1 THEN toks[1]
  ELSE toks[1] \o <<" ">> \o JoinWithSpace(Tail(toks))

\* line k of the output holds the tokens of line k of the input, each as it
\* was or replaced by its relative form
TokensCorrespond(inLine, outLine, base) ==
  LET ti == split_into_views(inLine)
      to == split_into_views(outLine)
  IN  /\ Len(to) = Len(ti)
      /\ \A j \in 1..Len(ti) :
           \/ to[j] = ti[j]
           \/ is_absolute_path(ti[j]) /\ to[j] = make_relative_path(base, ti[j])

Rewritten == pc = "returned" /\ pass = 1 /\ out.has_value

\* C6, as the specification states it: the rewritten content is the input
\* but for the replaced paths and the whitespace between tokens; the leading
\* indentation of every line is preserved verbatim and the line boundaries
\* are unchanged.
RewritePreservesLayout ==
  Rewritten =>
    LET inL == Lines(file_content)
        outL == Lines(out.value)
    IN  /\ Len(outL) = Len(inL)
        /\ \A k \in 1..Len(inL) :
             /\ TokensCorrespond(inL[k], outL[k], base_dir)
             /\ Indent(outL[k]) = Indent(inL[k])

\* C6, amended: the rewritten content has the lines of the input, each
\* holding the tokens of the input line (as they were, or replaced by their
\* relative form) joined by single spaces; the leading indentation of a line
\* is not preserved verbatim but becomes one space (none when the line has no
\* token), and blanks at the end of a line are dropped.
RewriteNormalisesLayout ==
  Rewritten =>
    LET inL == Lines(file_content)
        outL == Lines(out.value)
    IN  /\ Len(outL) = Len(inL)
        /\ \A k \in 1..Len(inL) :
             /\ TokensCorrespond(inL[k], outL[k], base_dir)
             /\ outL[k] =
                  (IF Indent(inL[k]) # <<>> /\ split_into_views(inL[k]) # <<>>
                   THEN <<" ">> ELSE <<>>)
                    \o JoinWithSpace(split_into_views(outL[k]))

\* a rewritten text of several lines, one of them indented by more than one
\* space or by a tab
RewriteLayoutWitness ==
  /\ Rewritten
  /\ Len(Lines(file_content)) >= 2
  /\ \E k \in 1..Len(Lines(file_content)) :
       /\ Indent(Lines(file_content)[k]) \notin {<<>>, <<" ">>}
       /\ split_into_views(Lines(file_content)[k]) # <<>>

\* C7: whenever rewrite returns content, tokenize of that content yields the
\* token sequence of tokenize of the input, except that a token whose path
\* was replaced is the decoded replacement.
RewriteKeepsTokens ==
  Rewritten /\ tokenize(file_content).returns =>
    LET tin == tokenize(file_content).tokens
        tout == tokenize(out.value)
        replaced == {o \in Range(offered) :
                       make_relative_path(base_dir, o.path) # o.path}
    IN  /\ tout.returns
        /\ Len(tout.tokens) = Len(tin)
        /\ \A k \in 1..Len(tin) :
             \/ tout.tokens[k] = tin[k]
             \/ \E o \in replaced :
                  /\ tin[k] \in Range(tokenize(o.path).tokens)
                  /\ tout.tokens[k] \in
                       Range(tokenize(make_relative_path(base_dir, o.path)).tokens)

\* the tokens up to and including the first one that ends with a colon (all
\* of them when none does)
TargetSide(entries) ==
  SelectSeq(entries,
            LAMBDA e : ~\E d \in Range(entries) :
                          Before(d, e.line, e.index) /\ EndsWithColon(d.path))

\* C8: no token before the first token ending in ':', nor that token itself,
\* is passed to make_relative_path or replaced, whatever its shape; for
\* "a b: c /abs/d" with base dir /abs only /abs/d is replaced.
TargetSideNeverOffered ==
  pc \in {"scan", "returned"} =>
    LET target == TargetSide(AllEntries(file_content))
    IN  /\ \A o \in Range(offered) : o \notin Range(target)
        /\ pc = "returned" /\ out.has_value =>
             \A k \in 1..Len(target) :
               AllEntries(out.value)[k].path = target[k].path
        /\ pc = "returned" /\ pass = 1 /\ file_content = BoundaryExample
             /\ base_dir = BoundaryBase =>
               /\ Len(offered) = 1
               /\ offered[1].path = <<"/", "a", "b", "s", "/", "d">>
               /\ out = Some(<<"a", " ", "b", ":", " ", "c", " ", "d">>)

\* a rewrite happened although a target-side token is a path under the base
\* directory
TargetSideWitness ==
  /\ Rewritten
  /\ \E e \in Range(TargetSide(AllEntries(file_content))) :
       /\ is_absolute_path(e.path)
       /\ make_relative_path(base_dir, e.path) # e.path

\* C9: whenever base_dir does not occur in the content, rewrite returns "no
\* rewrite occurred" without scanning any line and without calling
\* make_relative_path.
FastPathSkipsScan ==
  ~Contains(file_content, base_dir) =>
    /\ pc # "scan"
    /\ offered = <<>>
    /\ line_no = 1 /\ i = 0 /\ adjusted_file_content = <<>>
    /\ pc = "returned" => out = NullOpt

\* rewrite returned by the fast path from a text whose scan would have handed
\* a token to make_relative_path
FastPathWitness ==
  /\ pc = "returned"
  /\ pass = 1
  /\ ~Contains(file_content, base_dir)
  /\ ExpectedOffers(AllEntries(file_content), EndsWithColon) # <<>>

\* C10: applying rewrite to the text a rewrite produced changes nothing
\* further: the text after the second application is the text after the
\* first.
RewriteIdempotent ==
  pass = 2 /\ pc = "returned" => TextAfter = file_content

\* the first application rewrote the text and the second one scanned it
RewriteTwiceWitness ==
  /\ pass = 2
  /\ pc = "returned"
  /\ file_content # first_input
  /\ Contains(file_content, base_dir)
  /\ offered # <<>>

\* a chunk was handed to make_relative_path and came back different
ChunkReplaced ==
  \E k \in 1..Len(offered) :
    make_relative_path(base_dir, offered[k].path) # offered[k].path

\* C12: rewrite returns the full reconstructed text if and only if at least
\* one chunk was replaced by a collaborator result that differs from the
\* chunk; otherwise it returns "no rewrite occurred" and never a copy of the
\* text, even when the reconstructed text differs from the input in its
\* whitespace.
RewriteReturnsContentIffReplaced ==
  pc = "returned" =>
    /\ out.has_value <=> ChunkReplaced
    /\ out.has_value => out.value = adjusted_file_content
    /\ ~out.has_value => out = NullOpt

\* the scan offered a chunk that came back unchanged and reconstructed a text
\* that differs from the input, and "no rewrite occurred" was returned
NoRewriteDespiteWhitespaceWitness ==
  /\ pc = "returned"
  /\ pass = 1
  /\ offered # <<>>
  /\ ~ChunkReplaced
  /\ adjusted_file_content # file_content
  /\ out = NullOpt

---------------------------------------------------------------------------
(* Properties of make_paths_relative_in_output_dep and of the two entry    *)
(* points without a base directory, checked under SpecDep.                 *)

\* make_paths_relative_in_output_dep is running or has run
Orchestrated == dep_pc # "none"

\* the dependency file was neither read nor written
FileNotTouched == reads = 0 /\ writes = <<>> /\ output_dep = dep_before

\* C13, as the specification states it: an empty base directory is non-fatal
\* at every entry point: make_paths_relative_in_output_dep skips without
\* reading or writing the file, and rewrite_source_paths reached with an
\* empty base directory does not fail or abort but returns "no rewrite
\* occurred".
EmptyBaseDirNonFatal ==
  base_dir = <<>> =>
    /\ pc # "aborted"
    /\ Orchestrated => FileNotTouched /\ pc = "make_paths_relative"
    /\ ~Orchestrated /\ pc # "rewrite" => pc = "returned" /\ out = NullOpt

\* C13, amended: an empty base directory is non-fatal for
\* make_paths_relative_in_output_dep, which skips without reading or writing
\* the file and without calling rewrite_source_paths; rewrite_source_paths
\* itself requires a non-empty base directory: reached with an empty one it
\* fails its assertion and never returns.
EmptyBaseDirSkippedOrAsserted ==
  base_dir = <<>> =>
    /\ Orchestrated => FileNotTouched /\ pc = "make_paths_relative"
    /\ ~Orchestrated => /\ pc \in {"rewrite", "aborted"}
                        /\ out = NullOpt
                        /\ offered = <<>>
    /\ ~Orchestrated /\ pc = "rewrite" => ENABLED RewriteAssertFails

\* the orchestrator skipped a readable file that holds a path under the
\* base directory other callers use
EmptyBaseDirSkipWitness ==
  /\ base_dir = <<>>
  /\ dep_pc = "done"
  /\ dep_before.readable
  /\ Contains(dep_before.content, BaseDir)
  /\ FileNotTouched

\* the orchestrator cannot go on: it returned, or the process was aborted
DepAtRest == dep_pc = "done" \/ pc = "aborted"

\* C14: make_paths_relative_in_output_dep writes the dependency file at most
\* once, only after a successful read followed by a rewrite that returned
\* content, and writes exactly that content; when the base directory is
\* empty, the read fails or the rewrite reports no rewrite, the file is left
\* untouched; in every case the call returns normally.
DepWritesOnlyRewrittenContent ==
  Orchestrated =>
    /\ Len(writes) <= 1
    /\ reads <= 1
    /\ writes # <<>> =>
         /\ dep_pc = "done"
         /\ reads = 1
         /\ dep_before.readable
         /\ file_content = dep_before.content
         /\ pc = "returned"
         /\ out.has_value
         /\ writes = <<out.value>>
         /\ output_dep = [readable |-> TRUE, content |-> out.value]
    /\ dep_pc = "done"
         /\ (base_dir = <<>> \/ ~dep_before.readable \/ ~out.has_value) =>
           writes = <<>> /\ output_dep = dep_before
    /\ dep_pc = "done" /\ writes = <<>> =>
         base_dir = <<>> \/ ~dep_before.readable \/ (pc = "returned" /\ out = NullOpt)
    /\ pc # "aborted"
    /\ ~DepAtRest => ENABLED DepNext

\* the file was read, rewritten and written back with another content
DepWriteWitness ==
  /\ dep_pc = "done"
  /\ reads = 1
  /\ Len(writes) = 1
  /\ output_dep.content = writes[1]
  /\ output_dep # dep_before

=============================================================================
